---------------------------- MODULE Spec2Model ----------------------------
(***************************************************************************)
(* SpINUp: the three spectral-inference training drivers                   *)
(*   stfn_training.py  ModelTrainer.start_training / train_step            *)
(*   train_spin.py     __main__ loop / train_step / calculate_masked_...   *)
(*   jax_spin.py       SpIN.train / step / loss_and_grad                   *)
(* Floating point numbers are modelled as exact rationals plus NaN; a      *)
(* tensor is a record of its shape and its row-major data.                 *)
(***************************************************************************)
EXTENDS Integers, Sequences, FiniteSets, TLC

(***************************************************************************)
(* Scalars: <<n, d>> with d > 0 and gcd(n, d) = 1 is the rational n/d;     *)
(* <<0, 0>> is NaN, which every arithmetic operation propagates.           *)
(***************************************************************************)
NaN == <<0, 0>>

IsNaN(x) == x[2] = 0

Abs(n) == IF n < 0 THEN -n ELSE n

RECURSIVE GCD(_, _)
GCD(a, b) == IF b = 0 THEN a ELSE GCD(b, a % b)

Rat(n, d) ==
    LET s == IF d < 0 THEN -1 ELSE 1
        g == GCD(Abs(n), Abs(d))
    IN  IF d = 0 THEN NaN ELSE <<(s * n) \div g, (s * d) \div g>>

Num(n) == <<n, 1>>

Zero == Num(0)

One == Num(1)

\* both operands are reduced over their common factors before they are
\* multiplied, which keeps the intermediate products small
RAdd(x, y) ==
    IF IsNaN(x) \/ IsNaN(y) THEN NaN
    ELSE LET g == GCD(x[2], y[2])
         IN  Rat(x[1] * (y[2] \div g) + y[1] * (x[2] \div g), (x[2] \div g) * y[2])

RNeg(x) == IF IsNaN(x) THEN NaN ELSE <<-x[1], x[2]>>

RSub(x, y) == RAdd(x, RNeg(y))

RMul(x, y) ==
    IF IsNaN(x) \/ IsNaN(y) THEN NaN
    ELSE LET g1 == GCD(Abs(x[1]), y[2])
             g2 == GCD(Abs(y[1]), x[2])
         IN  Rat((x[1] \div g1) * (y[1] \div g2), (x[2] \div g2) * (y[2] \div g1))

\* x / y in floating point with y # 0 (the drivers divide by the batch size
\* and, inside the factorization, by positive pivots only)
RDiv(x, y) ==
    IF IsNaN(x) \/ IsNaN(y) \/ y[1] = 0 THEN NaN
    ELSE RMul(x, Rat(y[2], y[1]))

RPos(x) == ~IsNaN(x) /\ x[1] > 0

\* sum of f[1] .. f[n]
RECURSIVE RSum(_, _)
RSum(f, n) == IF n = 0 THEN Zero ELSE RAdd(RSum(f, n - 1), f[n])

(***************************************************************************)
(* Tensors                                                                 *)
(***************************************************************************)
RECURSIVE Prod(_)
Prod(s) == IF s = <<>> THEN 1 ELSE Head(s) * Prod(Tail(s))

\* the tuple <<f[1], ..., f[n]>>, every entry evaluated once
RECURSIVE Tuple(_, _)
Tuple(f, n) == IF n = 0 THEN <<>> ELSE Append(Tuple(f, n - 1), f[n])

Tensor(shape, data) == [shape |-> shape, data |-> Tuple(data, Prod(shape))]

Size(t) == Len(t.data)

\* a matrix from its entries F(i, j), 1-based
MkMat(r, c, F(_, _)) ==
    Tensor(<<r, c>>, [x \in 1..(r * c) |-> F(((x - 1) \div c) + 1, ((x - 1) % c) + 1)])

\* entry (i, j) of a matrix
At(m, i, j) == m.data[(i - 1) * m.shape[2] + j]

\* entry (n, a, p) of a tensor whose first two axes are (n, a) and whose
\* remaining axes are flattened into p
At3(t, n, a, p) ==
    LET psize == Size(t) \div (t.shape[1] * t.shape[2])
    IN  t.data[((n - 1) * t.shape[2] + (a - 1)) * psize + p]

IntMat(rows) ==
    MkMat(Len(rows), Len(rows[1]), LAMBDA i, j : Num(rows[i][j]))

HasNaN(t) == \E x \in 1..Size(t) : IsNaN(t.data[x])

NaNLike(shape) == Tensor(shape, [x \in 1..Prod(shape) |-> NaN])

Zeros(shape) == Tensor(shape, [x \in 1..Prod(shape) |-> Zero])

Ones(shape) == Tensor(shape, [x \in 1..Prod(shape) |-> One])

Eye(k) == MkMat(k, k, LAMBDA i, j : IF i = j THEN One ELSE Zero)

\* elementwise map over two tensors of one shape (jax.tree_multimap on a leaf)
Map2(F(_, _), x, y) == Tensor(x.shape, [i \in 1..Size(x) |-> F(x.data[i], y.data[i])])

Scale(c, x) == Tensor(x.shape, [i \in 1..Size(x) |-> RMul(c, x.data[i])])

TAdd(x, y) == Map2(RAdd, x, y)

TSub(x, y) == Map2(RSub, x, y)

MatMul(x, y) ==
    MkMat(x.shape[1], y.shape[2],
          LAMBDA i, j : RSum([a \in 1..x.shape[2] |-> RMul(At(x, i, a), At(y, a, j))],
                             x.shape[2]))

Transpose(x) == MkMat(x.shape[2], x.shape[1], LAMBDA i, j : At(x, j, i))

\* NumPy broadcasting of a vector of length k against a k x k matrix: the
\* vector is repeated along the rows
BroadcastTo(x, shape) ==
    IF x.shape = shape THEN x
    ELSE MkMat(shape[1], shape[2], LAMBDA i, j : x.data[j])

(***************************************************************************)
(* Configuration of the modelled runs                                      *)
(***************************************************************************)
\* shape of the network outputs on a batch, (batch_size, n_eigenfuncs): two
\* points and two eigenfunctions (the factorization below is that of a 2 x 2
\* matrix)
OutputShape == <<2, 2>>

\* rows of a batch (self.batch_size, batch_size)
batch_size == OutputShape[1]

\* number of eigenfunctions k (self.n_eigenfuncs, n_eigenfuncs, layers[-1])
n_eigenfuncs == OutputShape[2]

\* shape of the tracked kernel of the network
KernelShape == <<2, 1>>

KernelSize == Prod(KernelShape)

\* the values moving_average_beta / self.beta is configured with
Betas == {Zero, Rat(1, 2), One}

(***************************************************************************)
(* Moving averages                                                         *)
(***************************************************************************)
\* helper.moving_average(running_average, new_data, beta)
moving_average(running_average, new_data, beta) ==
    TAdd(Scale(RSub(One, beta), running_average), Scale(beta, new_data))

\* the average with its two weights exchanged: beta * x + (1.0 - beta) * y
js_average_swapped(x, y, beta) ==
    TAdd(Scale(beta, BroadcastTo(x, y.shape)), Scale(RSub(One, beta), y))

\* (1.0 - beta) * x + beta * y of jax_spin.py, with NumPy broadcasting
js_average(x, y, beta) ==
    TAdd(Scale(RSub(One, beta), BroadcastTo(x, y.shape)), Scale(beta, y))

(***************************************************************************)
(* Covariance and its custom backward rule (stfn_training.py)              *)
(***************************************************************************)
\* mean over the batch of the outer products u1[n] u2[n]^T
covariance(u1, u2) ==
    MkMat(u1.shape[2], u2.shape[2],
          LAMBDA i, j : RDiv(RSum([n \in 1..u1.shape[1] |->
                                      RMul(At(u1, n, i), At(u2, n, j))], u1.shape[1]),
                             Num(u1.shape[1])))

covariance_fwd(u1, u2) == <<covariance(u1, u2), <<u1, u2, u1.shape[1]>>>>

covariance_bwd(res, g) ==
    <<Scale(RDiv(One, Num(res[3])), MatMul(res[2], g)),
      Scale(RDiv(One, Num(res[3])), MatMul(res[1], g))>>

\* pull a cotangent gu on the network outputs back to the kernel through the
\* Jacobian du[n, a, p] of the outputs
PullBack(gu, du) ==
    Tensor(KernelShape,
           [p \in 1..KernelSize |->
               RSum([n \in 1..gu.shape[1] |->
                        RSum([a \in 1..gu.shape[2] |->
                                 RMul(At(gu, n, a), At3(du, n, a, p))], gu.shape[2])],
                    gu.shape[1])])

Basis(k, i, j) == MkMat(k, k, LAMBDA r, c : IF r = i /\ c = j THEN One ELSE Zero)

\* jax.jacrev(sigma_from_theta): one backward pass of covariance(u, u) per
\* entry (i, j) of the covariance, both input branches flowing into u
jacrev_sigma_from_theta(u, du) ==
    LET k == u.shape[2]
        row(i, j) == LET g == covariance_bwd(covariance_fwd(u, u)[2], Basis(k, i, j))
                     IN  PullBack(TAdd(g[1], g[2]), du)
    IN  Tensor(<<k, k>> \o KernelShape,
               [x \in 1..(k * k * KernelSize) |->
                   row((((x - 1) \div KernelSize) \div k) + 1,
                       (((x - 1) \div KernelSize) % k) + 1).data[((x - 1) % KernelSize) + 1]])

(***************************************************************************)
(* Whitening: Cholesky factor of the averaged covariance and its inverse.  *)
(* The factor L = Lt * sqrt(diag(d)) is irrational; it is carried as the   *)
(* unit lower triangular Lt and the pivots d, from which every quantity    *)
(* the drivers derive from L^-1 is an exact rational.                      *)
(***************************************************************************)
\* jnp.linalg.cholesky: the input is symmetrized; a matrix that is not
\* positive-definite (or holds NaN) yields a factor filled with NaN, no error
cholesky(sigma) ==
    LET a  == At(sigma, 1, 1)
        b  == RDiv(RAdd(At(sigma, 1, 2), At(sigma, 2, 1)), Num(2))
        c  == At(sigma, 2, 2)
        d1 == a
        d2 == RSub(c, RDiv(RMul(b, b), a))
    IN  IF sigma.shape = <<2, 2>> /\ RPos(d1) /\ RPos(d2)
        THEN [ok |-> TRUE, d |-> <<d1, d2>>,
              Lt |-> MkMat(2, 2, LAMBDA i, j : IF i = j THEN One
                                               ELSE IF i > j THEN RDiv(b, a) ELSE Zero)]
        ELSE [ok |-> FALSE]

\* jnp.linalg.inv(L): L^-1 = diag(d)^(-1/2) * T with T the inverse of Lt
inv(L) ==
    IF L.ok
    THEN [ok |-> TRUE, d |-> L.d,
          T |-> MkMat(2, 2, LAMBDA i, j : IF i = j THEN One
                                          ELSE IF i > j THEN RNeg(At(L.Lt, i, j)) ELSE Zero)]
    ELSE [ok |-> FALSE]

\* L_inv.T @ diag(diag(L_inv)): entry (r, c) is L_inv[c, r] * L_inv[c, c]
LinvT_diag(L_inv) ==
    IF L_inv.ok
    THEN MkMat(2, 2, LAMBDA r, c : RDiv(At(L_inv.T, c, r), L_inv.d[c]))
    ELSE NaNLike(<<n_eigenfuncs, n_eigenfuncs>>)

\* T @ pi @ T^T, the whitened operator matrix before the pivot scaling
WhitenedCore(L_inv, pi) == MatMul(MatMul(L_inv.T, pi), Transpose(L_inv.T))

\* diag(L_inv @ pi @ L_inv.T): the eigenvalue estimates
DiagLambda(L_inv, pi) ==
    IF L_inv.ok
    THEN Tuple([i \in 1..2 |-> RDiv(At(WhitenedCore(L_inv, pi), i, i), L_inv.d[i])], 2)
    ELSE Tuple([i \in 1..n_eigenfuncs |-> NaN], n_eigenfuncs)

\* L_inv.T @ triu(Lambda @ diag(diag(L_inv))) with Lambda = L_inv @ pi @ L_inv.T
LinvT_triu(L_inv, pi) ==
    IF L_inv.ok
    THEN LET M == WhitenedCore(L_inv, pi)
         IN  MkMat(2, 2, LAMBDA r, c :
                 RSum([i \in 1..2 |->
                          IF i <= c
                          THEN RDiv(RMul(At(L_inv.T, i, r), At(M, i, c)),
                                    RMul(L_inv.d[i], L_inv.d[c]))
                          ELSE Zero], 2))
    ELSE NaNLike(<<n_eigenfuncs, n_eigenfuncs>>)

\* sum of the entries of a vector given as a function on 1..n
SumVec(v, n) == RSum(v, n)

\* jnp.tensordot(A, J, [[0,1],[0,1]]): contract the two leading axes of J
\* against the matrix A, leaving a tensor shaped like the kernel
Contract2(A, J) ==
    Tensor(KernelShape,
           [p \in 1..KernelSize |->
               RSum([i \in 1..A.shape[1] |->
                        RSum([j \in 1..A.shape[2] |->
                                 RMul(At(A, i, j), At3(J, i, j, p))], A.shape[2])],
                    A.shape[1])])

(***************************************************************************)
(* A kernel is kept as the sequence of its summands, the kernel drawn at   *)
(* initialization followed by the updates applied to it: the exact sum of  *)
(* the rationals does not fit the integers of the model checker.           *)
(***************************************************************************)
Kernel(t) == [shape |-> t.shape, terms |-> <<t>>]

\* optax.apply_updates / the x - step of the rmsprop update: params + updates
apply_updates(params, updates) == [params EXCEPT !.terms = Append(@, updates)]

\* some entry of the kernel is NaN
KernelHasNaN(params) == \E i \in 1..Len(params.terms) : HasNaN(params.terms[i])

(***************************************************************************)
(* The network and the operator are external: one evaluation on a batch    *)
(* yields the outputs u (N x k), the operator outputs h_u (N x k) and      *)
(* their Jacobians du, dh with respect to the kernel (N x k x kernel).     *)
(***************************************************************************)
Jac(entries) ==
    Tensor(<<batch_size, n_eigenfuncs>> \o KernelShape,
           [x \in 1..Len(entries) |-> Num(entries[x])])

Evaluations ==
    << \* orthogonal outputs: the batch covariance is I/2
       [u   |-> IntMat(<< <<1, 0>>, <<0, 1>> >>),
        h_u |-> IntMat(<< <<-1, 0>>, <<0, -2>> >>),
        du  |-> Jac(<<1, 0, 0, 1, 0, 1, 1, 0>>),
        dh  |-> Jac(<<-1, 0, 0, 0, 0, 0, 0, -1>>)],
       \* every row of the batch is the same point: a rank-1 covariance
       [u   |-> IntMat(<< <<1, 0>>, <<1, 0>> >>),
        h_u |-> IntMat(<< <<-1, 0>>, <<-1, 0>> >>),
        du  |-> Jac(<<1, 0, 0, 1, 1, 0, 0, 1>>),
        dh  |-> Jac(<<0, 0, 0, 0, 0, 0, 0, 0>>)],
       \* correlated outputs of full rank
       [u   |-> IntMat(<< <<1, 1>>, <<0, 1>> >>),
        h_u |-> IntMat(<< <<-1, -2>>, <<0, -1>> >>),
        du  |-> Jac(<<1, 1, 0, 0, 0, 1, 1, 0>>),
        dh  |-> Jac(<<0, -1, 0, 0, -1, 0, 0, 0>>)] >>

\* the networks and data distributions a run can be given
Nets == 0..(Len(Evaluations) - 1)

\* a kernel that holds NaN yields NaN outputs on every batch
NaNEvaluation ==
    [u   |-> NaNLike(<<batch_size, n_eigenfuncs>>),
     h_u |-> NaNLike(<<batch_size, n_eigenfuncs>>),
     du  |-> NaNLike(<<batch_size, n_eigenfuncs>> \o KernelShape),
     dh  |-> NaNLike(<<batch_size, n_eigenfuncs>> \o KernelShape)]

\* model.apply / net_u on the batch drawn from key: a function of the
\* network, of the kernel (here of the updates applied to it) and of the key
Evaluate(network, params, key) ==
    IF KernelHasNaN(params) THEN NaNEvaluation
    ELSE Evaluations[((network + Len(params.terms) + key) % Len(Evaluations)) + 1]

(***************************************************************************)
(* The optimizer is external (optax.rmsprop, jax.experimental.optimizers   *)
(* rmsprop).  Its state nu is the running mean of the squared gradients,   *)
(* nu' = decay*nu + (1-decay)*g^2, and its update is -learning_rate * g /  *)
(* sqrt(nu').  Of nu the model keeps, per kernel entry, whether it is      *)
(* still 0, positive (1 stands for every positive value) or NaN; the       *)
(* positive factor 1/sqrt(nu') of the update is irrational and left out.   *)
(***************************************************************************)
learning_rate == One

opt_init(params) == Zeros(params.shape)

rms_accumulate(g, nu) ==
    Map2(LAMBDA m, x : IF IsNaN(m) \/ IsNaN(x) THEN NaN
                       ELSE IF x[1] # 0 THEN One ELSE m,
         nu, g)

opt_update(gradients, nu) ==
    LET nu2 == rms_accumulate(gradients, nu)
    IN  [updates |-> Map2(LAMBDA m, x : IF IsNaN(m) THEN NaN
                                        ELSE RNeg(RMul(learning_rate, x)),
                          nu2, gradients),
         opt_state |-> nu2]

(***************************************************************************)
(* stfn_training.py: train_step                                            *)
(***************************************************************************)
\* line 73 (the epoch-dependent schedule of line 72 is commented out)
stfn_augmented_beta(moving_average_beta, epoch) == moving_average_beta

\* lines 86-88: jax.vjp(pi_from_theta) applied to the cotangent ct; the
\* backward pass of covariance(u, h_u) feeds u and h_u
pi_vjp(ev, ct) ==
    LET g == covariance_bwd(covariance_fwd(ev.u, ev.h_u)[2], ct)
    IN  TAdd(PullBack(g[1], ev.du), PullBack(g[2], ev.dh))

\* line 96
stfn_A_2(L_inv, pi) == Scale(Num(-1), LinvT_triu(L_inv, pi))

\* line 98, first summand: jnp.tensordot(A_2, j_sigma_t_bar, [[0,1], [0,1]])
stfn_sigma_term(A_2, j_new) == Contract2(A_2, j_new)

\* line 98
stfn_gradients(A_2, j_new, A_1_J_pi) == TAdd(stfn_sigma_term(A_2, j_new), A_1_J_pi)

\* the body of train_step, read from the last definition upwards: every
\* stage hands the values it computed to the next one
stfn_train_step(weights, opt, ev, sigma_bar, j_bar, moving_average_beta, epoch) ==
    LET augmented_beta == stfn_augmented_beta(moving_average_beta, epoch)
        \* line 105, with the observations of the step the code does not return
        Return(j_sigma_t_hat, sigma, j_new, sigma_new, L_inv, energies, A_2, gradients, upd) ==
            [loss          |-> SumVec(energies, n_eigenfuncs),
             weight_dict   |-> apply_updates(weights, upd.updates),
             energies      |-> energies,
             sigma_t_bar   |-> sigma_new,
             j_sigma_t_bar |-> j_new,
             L_inv         |-> L_inv,
             opt_state     |-> upd.opt_state,
             beta          |-> augmented_beta,
             sigma_hat     |-> sigma,
             j_hat         |-> j_sigma_t_hat,
             sigma_used    |-> sigma_new,
             gradients     |-> gradients,
             updates       |-> upd.updates,
             opt_out       |-> upd.opt_state,
             outer         |-> A_2,
             sigma_term    |-> stfn_sigma_term(A_2, j_new),
             grad_loss     |-> gradients,
             bwd_g         |-> LinvT_diag(L_inv),
             bwd_out       |-> covariance_bwd(covariance_fwd(ev.u, ev.h_u)[2],
                                              LinvT_diag(L_inv))]
        \* lines 100-104: the gradients of line 98 go to opt_update as they are
        Update(j_sigma_t_hat, sigma, j_new, sigma_new, L_inv, energies, A_2, gradients) ==
            Return(j_sigma_t_hat, sigma, j_new, sigma_new, L_inv, energies, A_2, gradients,
                   opt_update(gradients, opt))
        \* lines 86-88 and 98
        Gradient(j_sigma_t_hat, sigma, j_new, sigma_new, L_inv, energies, A_2) ==
            Update(j_sigma_t_hat, sigma, j_new, sigma_new, L_inv, energies, A_2,
                   stfn_gradients(A_2, j_new, pi_vjp(ev, LinvT_diag(L_inv))))
        \* lines 90-96
        Outer(j_sigma_t_hat, sigma, j_new, sigma_new, L_inv, pi) ==
            Gradient(j_sigma_t_hat, sigma, j_new, sigma_new, L_inv, DiagLambda(L_inv, pi),
                     stfn_A_2(L_inv, pi))
        \* lines 83-86
        Factorize(j_sigma_t_hat, sigma, j_new, sigma_new) ==
            Outer(j_sigma_t_hat, sigma, j_new, sigma_new, inv(cholesky(sigma_new)),
                  covariance(ev.u, ev.h_u))
        \* lines 75-81
        Average(j_sigma_t_hat, sigma) ==
            Factorize(j_sigma_t_hat, sigma,
                      moving_average(j_bar, j_sigma_t_hat, augmented_beta),
                      moving_average(sigma_bar, sigma, augmented_beta))
    \* lines 74 and 80
    IN  Average(jacrev_sigma_from_theta(ev.u, ev.du), covariance(ev.u, ev.u))

(***************************************************************************)
(* train_spin.py: calculate_masked_gradient and train_step                 *)
(***************************************************************************)
\* jnp.mean(x[:, :, None] @ y[:, :, None].swapaxes(2, 1), axis=0)
outer_mean(x, y) ==
    MkMat(x.shape[2], y.shape[2],
          LAMBDA i, j : RDiv(RSum([n \in 1..x.shape[1] |->
                                      RMul(At(x, n, i), At(y, n, j))], x.shape[1]),
                             Num(x.shape[1])))

\* jnp.mean(jnp.einsum('bj, bjcw -> bcw', A, del_u), axis=0)
einsum_mean(A, del_u) == Scale(RDiv(One, Num(A.shape[1])), PullBack(A, del_u))

\* lines 60-61: A_2 before line 62 multiplies it by pred
ts_A_2(L_inv, pi_t_hat) == LinvT_triu(L_inv, pi_t_hat)

\* line 76
ts_masked_grad(j_pi_t_hat, j_new) == TSub(j_pi_t_hat, j_new)

\* sigma_bar is the parameter of calculate_masked_gradient, rebound locally;
\* j_bar is the module-level dictionary j_sigma_t_bar, updated in place.
\* Read from the last definition upwards.
calculate_masked_gradient(del_u, pred, h_u, sigma_bar, j_bar, moving_average_beta) ==
    LET \* lines 73-79
        Return(sigma_t_hat, sigma_local, L_inv, A_2, j_pi_t_hat, j_sigma_t_hat, j_new) ==
            [masked_gradient |-> ts_masked_grad(j_pi_t_hat, j_new),
             j_sigma_t_bar   |-> j_new,
             sigma_local     |-> sigma_local,
             sigma_hat       |-> sigma_t_hat,
             j_hat           |-> j_sigma_t_hat,
             L_inv           |-> L_inv,
             \* the derivative of the loss with respect to the covariance is
             \* -A_2; what line 76 subtracts is the covariance term
             outer           |-> Scale(Num(-1), A_2),
             sigma_term      |-> Scale(Num(-1), j_new)]
        \* lines 70-74
        AverageJ(sigma_t_hat, sigma_local, L_inv, A_2, j_pi_t_hat, j_sigma_t_hat) ==
            Return(sigma_t_hat, sigma_local, L_inv, A_2, j_pi_t_hat, j_sigma_t_hat,
                   moving_average(j_bar, j_sigma_t_hat, moving_average_beta))
        \* lines 56-59 and 62-72
        Contract(sigma_t_hat, sigma_local, L_inv, A_2) ==
            AverageJ(sigma_t_hat, sigma_local, L_inv, A_2,
                     einsum_mean(MatMul(h_u, LinvT_diag(L_inv)), del_u),
                     einsum_mean(MatMul(pred, A_2), del_u))
        \* lines 60-61
        Outer(sigma_t_hat, pi_t_hat, sigma_local, L_inv) ==
            Contract(sigma_t_hat, sigma_local, L_inv, ts_A_2(L_inv, pi_t_hat))
        \* lines 53-54
        Factorize(sigma_t_hat, pi_t_hat, sigma_local) ==
            Outer(sigma_t_hat, pi_t_hat, sigma_local, inv(cholesky(sigma_local)))
        \* lines 50-51
        Average(sigma_t_hat, pi_t_hat) ==
            Factorize(sigma_t_hat, pi_t_hat,
                      moving_average(sigma_bar, sigma_t_hat, moving_average_beta))
    \* lines 44-48
    IN  Average(outer_mean(pred, pred), outer_mean(h_u, pred))

\* train_step returns weight_dict, energies, sigma_t_bar, j_sigma_t_bar: its
\* own parameter sigma_t_bar, and not the optimizer state of line 106
ts_train_step(weights, opt, ev, sigma_bar, j_bar, moving_average_beta) ==
    LET Return(m, upd) ==
            [weight_dict   |-> apply_updates(weights, upd.updates),
             energies      |-> Zero,
             sigma_t_bar   |-> sigma_bar,
             j_sigma_t_bar |-> m.j_sigma_t_bar,
             \* observations of the step, not returned by the code
             beta          |-> moving_average_beta,
             sigma_hat     |-> m.sigma_hat,
             j_hat         |-> m.j_hat,
             sigma_used    |-> m.sigma_local,
             L_inv         |-> m.L_inv,
             gradients     |-> m.masked_gradient,
             updates       |-> upd.updates,
             opt_out       |-> upd.opt_state,
             outer         |-> m.outer,
             sigma_term    |-> m.sigma_term,
             grad_loss     |-> m.masked_gradient]
        \* line 106: the masked gradient goes to opt.update as it is
        Update(m) == Return(m, opt_update(m.masked_gradient, opt))
    IN  Update(calculate_masked_gradient(ev.du, ev.u, ev.h_u, sigma_bar, j_bar,
                                         moving_average_beta))

(***************************************************************************)
(* backbone.py: the sparsifying mask of a layer and its application        *)
(***************************************************************************)
sparsifying_K == 3

\* the network of train_spin.py has four Dense layers; the tracked kernel is
\* the one of the first (layer index 0)
n_layers == 4

tracked_layer == 0

\* get_layer_sparsifying_mask for the m x n kernel of layer l of L layers
\* (l counts from 0): entry (i, j), 0-based, is kept when i lies in some
\* band [alpha*m, (alpha+beta)*m] and j in some band [alpha*n, (alpha+beta)*n]
RLeq(x, y) == LET d == RSub(y, x) IN d[1] >= 0

InAnyBound(i, m, l, L) ==
    \E k \in 0..(sparsifying_K - 1) :
        LET beta  == Rat(L - l + 1, L)
            alpha == RMul(Rat(k, sparsifying_K - 1), Rat(l - 1, L))
        IN  /\ RLeq(RMul(alpha, Num(m)), Num(i))
            /\ RLeq(Num(i), RMul(RAdd(alpha, beta), Num(m)))

get_layer_sparsifying_mask(shape, l, L) ==
    Tuple([x \in 1..Prod(shape) |->
              /\ InAnyBound((x - 1) \div shape[2], shape[1], l, L)
              /\ InAnyBound((x - 1) % shape[2], shape[2], l, L)], Prod(shape))

\* the mask read the other way round: a kept entry is multiplied by 0.0
mask_tensor_inverted(t, mask) ==
    Tensor(t.shape, [x \in 1..Size(t) |-> RMul(t.data[x], IF mask[x] THEN Zero ELSE One)])

\* kernel * mask: a masked entry is multiplied by 0.0, a kept one by 1.0
mask_tensor(t, mask) ==
    Tensor(t.shape, [x \in 1..Size(t) |-> RMul(t.data[x], IF mask[x] THEN One ELSE Zero)])

sparsify_weights(weights, mask) ==
    [weights EXCEPT !.terms = Tuple([i \in 1..Len(weights.terms) |->
                                        mask_tensor(weights.terms[i], mask)],
                                    Len(weights.terms))]

(***************************************************************************)
(* jax_spin.py: SpIN.evaluate_spin, masked_gradients, loss_and_grad, step  *)
(***************************************************************************)
\* lines 120-139, read from the last definition upwards
evaluate_spin(ev, averages, beta) ==
    LET n == ev.u.shape[1]
        Return(sigma, sigma_avg, choli, pi) ==
            [u |-> ev.u, choli |-> choli, pi |-> pi, operator |-> ev.h_u,
             rq_diag |-> DiagLambda(choli, pi), sigma_avg |-> sigma_avg, sigma |-> sigma]
        \* lines 130-135
        Factorize(sigma, sigma_avg) ==
            Return(sigma, sigma_avg, inv(cholesky(sigma_avg)),
                   Scale(RDiv(One, Num(n)), MatMul(Transpose(ev.h_u), ev.u)))
        \* line 127
        Average(sigma) == Factorize(sigma, js_average(averages[1], sigma, beta))
    \* line 126
    IN  Average(Scale(RDiv(One, Num(n)), MatMul(Transpose(ev.u), ev.u)))

\* np.tensordot(u.T, grad_theta, 1)
sigma_jacobian(u, grad_theta) ==
    LET k == u.shape[2]
    IN  Tensor(<<k, k>> \o KernelShape,
               [x \in 1..(k * k * KernelSize) |->
                   LET i == (((x - 1) \div KernelSize) \div k) + 1
                       a == (((x - 1) \div KernelSize) % k) + 1
                       p == ((x - 1) % KernelSize) + 1
                   IN  RSum([n \in 1..u.shape[1] |->
                                RMul(At(u, n, i), At3(grad_theta, n, a, p))], u.shape[1])])

\* line 176: negate for gradient ascent
js_negate(gradients) == Scale(Num(-1), gradients)

\* line 150
js_grad_sigma(choli, pi) == Scale(Num(-1), LinvT_triu(choli, pi))

\* lines 172-174: the covariance summand of the gradient, with its share of
\* the division by n
js_sigma_term(grad_sigma, sigma_jac_avg, n) ==
    Scale(RDiv(One, Num(n)), Contract2(grad_sigma, sigma_jac_avg))

\* lines 167-174
js_gradients(grad_pi, grad_sigma, operator, grad_theta, sigma_jac_avg, n) ==
    Scale(RDiv(One, Num(n)),
          TAdd(PullBack(Transpose(MatMul(Transpose(grad_pi), Transpose(operator))),
                        grad_theta),
               Contract2(grad_sigma, sigma_jac_avg)))

\* lines 143-178, read from the last definition upwards
masked_gradients(ev, outputs, averages, beta) ==
    LET \* line 176, with the observations of the step the code does not return
        Return(sigma_jac, sigma_jac_avg, grad_sigma, gradients) ==
            [gradients |-> js_negate(gradients),
             sigma_jac_avg |-> sigma_jac_avg,
             sigma_jac |-> sigma_jac,
             outer |-> grad_sigma,
             sigma_term |-> js_sigma_term(grad_sigma, sigma_jac_avg, ev.u.shape[1]),
             grad_loss |-> gradients]
        \* lines 148 and 167-174
        Gradients(sigma_jac, sigma_jac_avg, grad_sigma) ==
            Return(sigma_jac, sigma_jac_avg, grad_sigma,
                   js_gradients(LinvT_diag(outputs.choli), grad_sigma, outputs.operator,
                                ev.du, sigma_jac_avg, ev.u.shape[1]))
        \* lines 150 and 162-165
        Average(sigma_jac) ==
            Gradients(sigma_jac, js_average(averages[2], sigma_jac, beta),
                      js_grad_sigma(outputs.choli, outputs.pi))
    \* lines 153-160
    IN  Average(sigma_jacobian(outputs.u, ev.du))

\* lines 182-207
loss_and_grad(ev, averages, beta) ==
    LET Return(outputs, mg) ==
            [loss |-> SumVec(outputs.rq_diag, n_eigenfuncs),
             gradients |-> mg.gradients,
             averages |-> <<outputs.sigma_avg, mg.sigma_jac_avg>>,
             sigma_hat |-> outputs.sigma, j_hat |-> mg.sigma_jac,
             L_inv |-> outputs.choli,
             outer |-> mg.outer, sigma_term |-> mg.sigma_term, grad_loss |-> mg.grad_loss]
        Gradients(outputs) == Return(outputs, masked_gradients(ev, outputs, averages, beta))
    IN  Gradients(evaluate_spin(ev, averages, beta))

\* the optimizer state of jax.experimental.optimizers holds the parameters
get_params(opt) == opt.x

js_opt_update(gradients, opt) ==
    LET Return(upd) == [x |-> apply_updates(opt.x, upd.updates),
                        avg_sq_grad |-> upd.opt_state]
    IN  Return(opt_update(gradients, opt.avg_sq_grad))

\* lines 221-227
step(opt, ev, averages, beta) ==
    LET Return(lg) ==
            [loss |-> lg.loss, opt_state |-> js_opt_update(lg.gradients, opt),
             averages |-> lg.averages,
             sigma_hat |-> lg.sigma_hat, j_hat |-> lg.j_hat, L_inv |-> lg.L_inv,
             gradients |-> lg.gradients,
             outer |-> lg.outer, sigma_term |-> lg.sigma_term, grad_loss |-> lg.grad_loss]
    IN  Return(loss_and_grad(ev, averages, beta))

\* SpIN.eigenpairs: the eigenvalue estimates on a batch (the eigenfunction
\* values u @ choli.T are irrational and not needed by the driver)
eigenpairs(ev, averages, beta) == evaluate_spin(ev, averages, beta).rq_diag
(***************************************************************************)
(* Bounds of the modelled runs                                             *)
(***************************************************************************)
\* iteration budget of a run (self.num_epochs, num_epochs, nIter)
NumEpochs == 3

\* the callback of start_training is consulted every CallbackEvery epochs
\* (every 500 epochs in the source; scaled down with the budget)
CallbackEvery == 2

\* self.log_every (10000 in the source; scaled down with the budget)
LogEvery == 3

\* invocations of SpIN.train on one SpIN object
MaxTrainCalls == 2

(***************************************************************************)
(* State                                                                   *)
(***************************************************************************)
VARIABLES
    driver,                  \* which program runs: "stfn", "train_spin", "jax_spin"
    net,                     \* the network and data the run is given
    pc,                      \* position of the driver
    moving_average_beta,     \* self.moving_average_beta / moving_average_beta / self.beta
    callback,                \* TRUE when start_training is given a callback
    epoch,                   \* loop variable (epoch, it)
    rng,                     \* rng of the driver / dataset.key of the DataGenerator
    weight_dict,             \* weight_dict / params
    opt_state,               \* opt_state / self.opt_state
    sigma_t_bar,             \* sigma_t_bar / sigma_avg
    j_sigma_t_bar,           \* j_sigma_t_bar / sigma_jac_avg
    layer_sparsifying_masks, \* mask of the tracked kernel (train_spin.py)
    loss,                    \* loss / self.loss_log
    energies,                \* energies / self.evals_log
    itercount,               \* self.itercount (jax_spin.py)
    train_calls,             \* invocations of SpIN.train so far
    saved,                   \* the checkpoint on disk
    io_log,                  \* checkpoint write failures logged
    returned,                \* what the driver handed back to its caller
    nsteps,                  \* training steps executed in the current run
    last                     \* inputs, outputs and observations of the latest step

vars == <<driver, net, pc, moving_average_beta, callback, epoch, rng, weight_dict, opt_state,
          sigma_t_bar, j_sigma_t_bar, layer_sparsifying_masks, loss, energies, itercount,
          train_calls, saved, io_log, returned, nsteps, last>>

\* a name not bound yet
Unset == [shape |-> <<0>>, data |-> <<>>]

UnsetKernel == [shape |-> <<0>>, terms |-> <<>>]

NoStep ==
    [epoch |-> 0, key |-> 0, beta |-> NaN, ok |-> TRUE,
     sigma_in |-> Unset, sigma_hat |-> Unset, sigma_used |-> Unset,
     j_in |-> Unset, j_hat |-> Unset, j_out |-> Unset,
     opt_in |-> Unset, opt_out |-> Unset, weights_in |-> UnsetKernel,
     gradients |-> Unset, loss |-> NaN, energies |-> <<>>,
     outer |-> Unset, sigma_term |-> Unset, grad_loss |-> Unset,
     bwd_res |-> <<>>, bwd_g |-> Unset, bwd_out |-> <<>>, stepped |-> UnsetKernel]

NoCheckpoint ==
    [epoch |-> 0, weight_dict |-> UnsetKernel, opt_state |-> Unset,
     sigma_t_bar |-> Unset, j_sigma_t_bar |-> Unset]

\* jax.random.PRNGKey(seed): the root of the key tree
PRNGKey == 1

\* jax.random.split(key): two fresh keys, a function of the key alone
split(key) == <<2 * key, 2 * key + 1>>

\* the kernel model.init / net_init draws
InitKernel ==
    Kernel(Tensor(KernelShape, [x \in 1..KernelSize |-> IF x = 1 THEN Num(1) ELSE Num(-1)]))

Drivers == {"stfn", "train_spin", "jax_spin"}

\* the state after construction: ModelTrainer(), the module constants of
\* train_spin.py, SpIN(operator, layers) with the DataGenerator
Init ==
    /\ driver \in Drivers
    /\ net \in Nets
    /\ pc = "start"
    /\ moving_average_beta \in Betas
    /\ callback \in (IF driver = "stfn" THEN BOOLEAN ELSE {FALSE})
    /\ epoch = 0
    /\ rng = PRNGKey
    /\ weight_dict = (IF driver = "jax_spin" THEN InitKernel ELSE UnsetKernel)
    /\ opt_state = (IF driver = "jax_spin"
                    THEN [x |-> InitKernel, avg_sq_grad |-> opt_init(InitKernel)]
                    ELSE [x |-> UnsetKernel, avg_sq_grad |-> Unset])
    /\ sigma_t_bar = Unset
    /\ j_sigma_t_bar = Unset
    /\ layer_sparsifying_masks = <<>>
    /\ loss = <<>>
    /\ energies = <<>>
    /\ itercount = 0
    /\ train_calls = 0
    /\ saved = NoCheckpoint
    /\ io_log = 0
    /\ returned = "pending"
    /\ nsteps = 0
    /\ last = NoStep

(***************************************************************************)
(* stfn_training.py: ModelTrainer.start_training                           *)
(***************************************************************************)
\* lines 147-185: keys, create_train_state, the moving averages
StfnStart ==
    /\ driver = "stfn" /\ pc = "start"
    /\ rng' = split(rng)[1]
    /\ weight_dict' = InitKernel
    /\ opt_state' = [x |-> UnsetKernel, avg_sq_grad |-> opt_init(InitKernel)]
    /\ sigma_t_bar' = Eye(n_eigenfuncs)
    /\ j_sigma_t_bar' = Zeros(<<n_eigenfuncs, n_eigenfuncs>> \o InitKernel.shape)
    /\ epoch' = 0
    /\ loss' = <<>>
    /\ energies' = <<>>
    /\ nsteps' = 0
    /\ pc' = "loop"
    /\ UNCHANGED <<driver, net, moving_average_beta, callback, layer_sparsifying_masks,
                   itercount, train_calls, saved, io_log, returned, last>>

\* the guard of StfnTrainStep; the step itself is a total function of the
\* state and advances epoch, so the guard is its enabling condition
StfnTrainStepEnabled == driver = "stfn" /\ pc = "loop" /\ epoch < NumEpochs

\* lines 186-199: draw a batch from a fresh subkey and run train_step
StfnTrainStep ==
    /\ StfnTrainStepEnabled
    /\ \E ev \in {Evaluate(net, weight_dict, split(rng)[2])} :
        \E r \in {stfn_train_step(weight_dict, opt_state.avg_sq_grad, ev, sigma_t_bar,
                                  j_sigma_t_bar, moving_average_beta, epoch + 1)} :
            /\ weight_dict' = r.weight_dict
            /\ opt_state' = [opt_state EXCEPT !.avg_sq_grad = r.opt_state]
            /\ sigma_t_bar' = r.sigma_t_bar
            /\ j_sigma_t_bar' = r.j_sigma_t_bar
            /\ last' = [epoch |-> epoch + 1, key |-> split(rng)[2], beta |-> r.beta,
                        ok |-> r.L_inv.ok,
                        sigma_in |-> sigma_t_bar, sigma_hat |-> r.sigma_hat,
                        sigma_used |-> r.sigma_used,
                        j_in |-> j_sigma_t_bar, j_hat |-> r.j_hat, j_out |-> r.j_sigma_t_bar,
                        opt_in |-> opt_state.avg_sq_grad, opt_out |-> r.opt_out,
                        weights_in |-> weight_dict, gradients |-> r.gradients,
                        loss |-> r.loss, energies |-> r.energies,
                        outer |-> r.outer, sigma_term |-> r.sigma_term,
                        grad_loss |-> r.grad_loss,
                        bwd_res |-> covariance_fwd(ev.u, ev.h_u)[2],
                        bwd_g |-> r.bwd_g, bwd_out |-> r.bwd_out,
                        stepped |-> r.weight_dict]
    /\ rng' = split(rng)[1]
    /\ epoch' = epoch + 1
    /\ nsteps' = nsteps + 1
    /\ pc' = "record"
    /\ UNCHANGED <<driver, net, moving_average_beta, callback, layer_sparsifying_masks, loss,
                   energies, itercount, train_calls, saved, io_log, returned>>

\* lines 201-202: the loss and eigenvalue history
StfnRecord ==
    /\ driver = "stfn" /\ pc = "record"
    /\ loss' = Append(loss, last.loss)
    /\ energies' = Append(energies, last.energies)
    /\ pc' = "callback"
    /\ UNCHANGED <<driver, net, moving_average_beta, callback, epoch, rng, weight_dict,
                   opt_state, sigma_t_bar, j_sigma_t_bar, layer_sparsifying_masks,
                   itercount, train_calls, saved, io_log, returned, nsteps, last>>

\* a driver that consults the callback at every epoch
callback_due_any_epoch(e, given) == given

\* line 205: is the callback consulted at this epoch
callback_due(e, given) == e % CallbackEvery = 0 /\ given

\* lines 205-208: the callback may end the run; start_training returns None
StfnCallback ==
    /\ driver = "stfn" /\ pc = "callback"
    /\ IF callback_due(epoch, callback)
       THEN \E to_stop \in BOOLEAN :
               IF to_stop
               THEN pc' = "cancelled" /\ returned' = "None"
               ELSE pc' = "checkpoint" /\ UNCHANGED returned
       ELSE pc' = "checkpoint" /\ UNCHANGED returned
    /\ UNCHANGED <<driver, net, moving_average_beta, callback, epoch, rng, weight_dict,
                   opt_state, sigma_t_bar, j_sigma_t_bar, layer_sparsifying_masks, loss,
                   energies, itercount, train_calls, saved, io_log, nsteps, last>>

\* line 211: is a checkpoint written at this epoch
checkpoint_due(e) == e % LogEvery = 0 \/ e = 1

\* helper.create_checkpoint: best-effort persistence; a failed write is
\* logged and the call returns
create_checkpoint(io_ok, old, snapshot, log) ==
    IF io_ok THEN [saved |-> snapshot, io_log |-> log]
    ELSE [saved |-> old, io_log |-> log + 1]

\* a driver that gives up when the write failed
after_checkpoint_fatal(io_ok) == IF io_ok THEN "loop" ELSE "done"

\* where start_training goes on when create_checkpoint has returned
after_checkpoint(io_ok) == "loop"

\* lines 210-213
StfnCheckpoint ==
    /\ driver = "stfn" /\ pc = "checkpoint"
    /\ IF checkpoint_due(epoch)
       THEN \E io_ok \in BOOLEAN :
               \E c \in {create_checkpoint(io_ok, saved,
                            [epoch |-> epoch, weight_dict |-> weight_dict,
                             opt_state |-> opt_state.avg_sq_grad,
                             sigma_t_bar |-> sigma_t_bar,
                             j_sigma_t_bar |-> j_sigma_t_bar], io_log)} :
                   /\ saved' = c.saved
                   /\ io_log' = c.io_log
                   /\ pc' = after_checkpoint(io_ok)
       ELSE pc' = "loop" /\ UNCHANGED <<saved, io_log>>
    /\ UNCHANGED <<driver, net, moving_average_beta, callback, epoch, rng, weight_dict,
                   opt_state, sigma_t_bar, j_sigma_t_bar, layer_sparsifying_masks, loss,
                   energies, itercount, train_calls, returned, nsteps, last>>

\* the range of line 185 is exhausted: start_training falls off its end
StfnFinish ==
    /\ driver = "stfn" /\ pc = "loop" /\ epoch = NumEpochs
    /\ pc' = "done"
    /\ returned' = "None"
    /\ UNCHANGED <<driver, net, moving_average_beta, callback, epoch, rng, weight_dict,
                   opt_state, sigma_t_bar, j_sigma_t_bar, layer_sparsifying_masks, loss,
                   energies, itercount, train_calls, saved, io_log, nsteps, last>>
(***************************************************************************)
(* train_spin.py: the __main__ script                                      *)
(***************************************************************************)
\* lines 118-145: key, create_train_state (which sparsifies the fresh
\* kernel), the moving averages
TsStart ==
    /\ driver = "train_spin" /\ pc = "start"
    /\ rng' = split(rng)[1]
    /\ \E masks \in {get_layer_sparsifying_mask(KernelShape, tracked_layer, n_layers)} :
         \E w \in {sparsify_weights(InitKernel, masks)} :
           /\ layer_sparsifying_masks' = masks
           /\ weight_dict' = w
           /\ opt_state' = [x |-> UnsetKernel, avg_sq_grad |-> opt_init(w)]
           /\ j_sigma_t_bar' = Zeros(w.shape)
    /\ sigma_t_bar' = Eye(n_eigenfuncs)
    /\ epoch' = 0
    /\ nsteps' = 0
    /\ pc' = "loop"
    /\ UNCHANGED <<driver, net, moving_average_beta, callback, loss, energies, itercount,
                   train_calls, saved, io_log, returned, last>>

\* lines 148-158: one epoch; the batch is drawn from rng itself, train_step
\* hands back neither its optimizer state nor the averaged covariance
TsEpoch ==
    /\ driver = "train_spin" /\ pc = "loop" /\ epoch < NumEpochs
    /\ \E ev \in {Evaluate(net, weight_dict, rng)} :
        \E r \in {ts_train_step(weight_dict, opt_state.avg_sq_grad, ev, sigma_t_bar,
                                j_sigma_t_bar, moving_average_beta)} :
            /\ weight_dict' = sparsify_weights(r.weight_dict, layer_sparsifying_masks)
            /\ sigma_t_bar' = r.sigma_t_bar
            /\ j_sigma_t_bar' = r.j_sigma_t_bar
            /\ last' = [epoch |-> epoch + 1, key |-> rng, beta |-> r.beta,
                        ok |-> r.L_inv.ok,
                        sigma_in |-> sigma_t_bar, sigma_hat |-> r.sigma_hat,
                        sigma_used |-> r.sigma_used,
                        j_in |-> j_sigma_t_bar, j_hat |-> r.j_hat, j_out |-> r.j_sigma_t_bar,
                        opt_in |-> opt_state.avg_sq_grad, opt_out |-> r.opt_out,
                        weights_in |-> weight_dict, gradients |-> r.gradients,
                        loss |-> NaN, energies |-> <<>>,
                        outer |-> r.outer, sigma_term |-> r.sigma_term,
                        grad_loss |-> r.grad_loss,
                        bwd_res |-> <<>>, bwd_g |-> Unset, bwd_out |-> <<>>,
                        stepped |-> r.weight_dict]
    /\ epoch' = epoch + 1
    /\ nsteps' = nsteps + 1
    /\ pc' = "loop"
    /\ UNCHANGED <<driver, net, moving_average_beta, callback, rng, opt_state,
                   layer_sparsifying_masks, loss, energies, itercount, train_calls, saved,
                   io_log, returned>>

\* line 159: the loop is over
TsFinish ==
    /\ driver = "train_spin" /\ pc = "loop" /\ epoch = NumEpochs
    /\ pc' = "done"
    /\ returned' = "None"
    /\ UNCHANGED <<driver, net, moving_average_beta, callback, epoch, rng, weight_dict,
                   opt_state, sigma_t_bar, j_sigma_t_bar, layer_sparsifying_masks, loss,
                   energies, itercount, train_calls, saved, io_log, nsteps, last>>

(***************************************************************************)
(* jax_spin.py: SpIN.train                                                 *)
(***************************************************************************)
\* init_sigma_jac: np.tensordot(u.T, grad_theta, 1) * 0
init_sigma_jac(params) ==
    IF KernelHasNaN(params) THEN NaNLike(<<n_eigenfuncs, n_eigenfuncs>> \o params.shape)
    ELSE Zeros(<<n_eigenfuncs, n_eigenfuncs>> \o params.shape)

\* lines 243: beta of the iteration whose count is cnt
js_beta(cnt, beta) == IF cnt > 0 THEN beta ELSE One

\* lines 231-237: a call of train; the averages start afresh and
\* init_sigma_jac consumes one batch of the dataset
JsTrain ==
    /\ driver = "jax_spin" /\ pc \in {"start", "idle"}
    /\ train_calls < MaxTrainCalls
    /\ train_calls' = train_calls + 1
    /\ sigma_t_bar' = Ones(<<n_eigenfuncs>>)
    /\ j_sigma_t_bar' = init_sigma_jac(get_params(opt_state))
    /\ rng' = split(rng)[1]
    /\ epoch' = 0
    /\ nsteps' = 0
    /\ returned' = "pending"
    /\ pc' = "loop"
    /\ UNCHANGED <<driver, net, moving_average_beta, callback, weight_dict, opt_state,
                   layer_sparsifying_masks, loss, energies, itercount, saved, io_log, last>>

\* lines 240-249: one iteration up to the optimizer update
JsStep ==
    /\ driver = "jax_spin" /\ pc = "loop" /\ epoch < NumEpochs
    /\ \E ev \in {Evaluate(net, get_params(opt_state), split(rng)[2])} :
        \E r \in {step(opt_state, ev, <<sigma_t_bar, j_sigma_t_bar>>,
                       js_beta(itercount, moving_average_beta))} :
            /\ opt_state' = r.opt_state
            /\ sigma_t_bar' = r.averages[1]
            /\ j_sigma_t_bar' = r.averages[2]
            /\ last' = [epoch |-> epoch, key |-> split(rng)[2],
                        beta |-> js_beta(itercount, moving_average_beta),
                        ok |-> r.L_inv.ok,
                        sigma_in |-> sigma_t_bar, sigma_hat |-> r.sigma_hat,
                        sigma_used |-> r.averages[1],
                        j_in |-> j_sigma_t_bar, j_hat |-> r.j_hat, j_out |-> r.averages[2],
                        opt_in |-> opt_state.avg_sq_grad,
                        opt_out |-> r.opt_state.avg_sq_grad,
                        weights_in |-> get_params(opt_state), gradients |-> r.gradients,
                        loss |-> r.loss, energies |-> <<>>,
                        outer |-> r.outer, sigma_term |-> r.sigma_term,
                        grad_loss |-> r.grad_loss,
                        bwd_res |-> <<>>, bwd_g |-> Unset, bwd_out |-> <<>>,
                        stepped |-> get_params(r.opt_state)]
    /\ itercount' = itercount + 1
    /\ rng' = split(rng)[1]
    /\ nsteps' = nsteps + 1
    /\ pc' = "logger"
    /\ UNCHANGED <<driver, net, moving_average_beta, callback, epoch, weight_dict,
                   layer_sparsifying_masks, loss, energies, train_calls, saved, io_log,
                   returned>>

\* lines 251-256: the logger evaluates the eigenvalues on one more batch of
\* the dataset
JsLogger ==
    /\ driver = "jax_spin" /\ pc = "logger"
    /\ \E ev \in {Evaluate(net, get_params(opt_state), split(rng)[2])} :
        LET evals == eigenpairs(ev, <<sigma_t_bar, j_sigma_t_bar>>, last.beta)
        IN  /\ energies' = Append(energies, evals)
            /\ loss' = Append(loss, last.loss)
    /\ weight_dict' = get_params(opt_state)
    /\ rng' = split(rng)[1]
    /\ epoch' = epoch + 1
    /\ pc' = "loop"
    /\ UNCHANGED <<driver, net, moving_average_beta, callback, opt_state, sigma_t_bar,
                   j_sigma_t_bar, layer_sparsifying_masks, itercount, train_calls, saved,
                   io_log, returned, nsteps, last>>

\* line 258: train returns params, averages, beta
JsReturn ==
    /\ driver = "jax_spin" /\ pc = "loop" /\ epoch = NumEpochs
    /\ returned' = "state"
    /\ pc' = "idle"
    /\ UNCHANGED <<driver, net, moving_average_beta, callback, epoch, rng, weight_dict,
                   opt_state, sigma_t_bar, j_sigma_t_bar, layer_sparsifying_masks, loss,
                   energies, itercount, train_calls, saved, io_log, nsteps, last>>

Next ==
    \/ StfnStart
    \/ StfnTrainStep
    \/ StfnRecord
    \/ StfnCallback
    \/ StfnCheckpoint
    \/ StfnFinish
    \/ TsStart
    \/ TsEpoch
    \/ TsFinish
    \/ JsTrain
    \/ JsStep
    \/ JsLogger
    \/ JsReturn

Spec == Init /\ [][Next]_vars

\* WF_vars(StfnTrainStep), with the enabling condition written out
StfnTrainStepFair == []<>(~StfnTrainStepEnabled) \/ []<><<StfnTrainStep>>_vars

\* start_training is one sequential thread of control: whatever statement it
\* has reached, it executes (train_step, the callback and the checkpoint
\* write return)
FairSpec ==
    /\ Spec
    /\ WF_vars(StfnStart)
    /\ StfnTrainStepFair
    /\ WF_vars(StfnRecord)
    /\ WF_vars(StfnCallback)
    /\ WF_vars(StfnCheckpoint)
    /\ WF_vars(StfnFinish)

(***************************************************************************)
(* Claims                                                                  *)
(***************************************************************************)
\* a training step is being taken, and it is not the first of its run
LaterStep == nsteps >= 1 /\ nsteps' = nsteps + 1

\* the driver has stopped
Stopped == pc \in {"done", "cancelled"}

\* C1: in stfn_training.py and train_spin.py the first step of a run uses
\* beta = 1, so the covariance average after it is the covariance of the
\* first batch, whatever beta is configured
C1_ColdStart ==
    (driver \in {"stfn", "train_spin"} /\ pc # "start" /\ nsteps = 1)
        => (last.beta = One /\ last.sigma_used = last.sigma_hat)

\* C2: in jax_spin.py the first iteration of every invocation of train runs
\* with beta = 1, every later iteration with self.beta
C2_FirstIterationOfEachCall ==
    (driver = "jax_spin" /\ pc = "logger")
        => last.beta = (IF nsteps = 1 THEN One ELSE moving_average_beta)

\* C3: in every driver a step that is not the first of its run starts from
\* the two averages the step before it computed
C3_AveragesThreaded ==
    [][LaterStep => (last'.sigma_in = last.sigma_used /\ last'.j_in = last.j_out)]_vars

\* C4: in every driver the optimizer update of a step that is not the first
\* of its run is given the optimizer state the step before it returned
C4_OptimizerStateThreaded ==
    [][LaterStep => last'.opt_in = last.opt_out]_vars

\* C5: when the callback of start_training stops the run, the state of the
\* epoch at which it stopped is in the checkpoint or handed to the caller
C5_StopPreservesState ==
    (driver = "stfn" /\ pc = "cancelled")
        => \/ returned = "state"
           \/ /\ saved.epoch = epoch
              /\ saved.weight_dict = weight_dict
              /\ saved.opt_state = opt_state.avg_sq_grad
              /\ saved.sigma_t_bar = sigma_t_bar
              /\ saved.j_sigma_t_bar = j_sigma_t_bar

\* C6: every run of start_training stops; it stops after one train_step for
\* each of the epochs 1..num_epochs, taken in order, or right after the step
\* of an epoch at which the callback is consulted (a callback is given and
\* the epoch is a multiple of the period); once stopped, no step is taken
C6_Terminates ==
    /\ (driver = "stfn") ~> Stopped
    /\ [](driver = "stfn" /\ pc = "done" => nsteps = NumEpochs /\ epoch = NumEpochs)
    /\ [](driver = "stfn" /\ pc = "cancelled"
            => callback /\ epoch % CallbackEvery = 0 /\ nsteps = epoch /\ epoch >= 1)
    /\ [][(driver = "stfn" /\ nsteps' # nsteps)
            => (pc = "loop" /\ nsteps' = nsteps + 1 /\ epoch' = epoch + 1
                /\ epoch' = nsteps')]_vars
    /\ [][(driver = "stfn" /\ Stopped) => (Stopped' /\ nsteps' = nsteps)]_vars

\* a run that the callback stopped before the budget was used up
C6_Witness ==
    driver = "stfn" /\ pc = "cancelled" /\ nsteps = CallbackEvery /\ nsteps < NumEpochs

\* C7: once the Cholesky factorization of a step has failed, no further step
\* is taken and nothing is appended to the recorded eigenvalues
C7_CholeskyFailureStops ==
    [][(pc # "start" /\ nsteps >= 1 /\ ~last.ok)
          => (nsteps' # nsteps + 1 /\ energies' = energies)]_vars

\* C8: recording the history, writing a checkpoint and logging leave the
\* parameters, the optimizer state, the averages and the source of the
\* training batches as they are
C8_OptionalWorkFrame ==
    [][(pc \in {"record", "checkpoint", "logger"})
          => (UNCHANGED <<opt_state, sigma_t_bar, j_sigma_t_bar, rng>>
              /\ (driver = "stfn" => weight_dict' = weight_dict))]_vars

C10_InitialAverages ==
    (pc = "loop" /\ nsteps = 0)
        => /\ sigma_t_bar = Eye(n_eigenfuncs)
           /\ j_sigma_t_bar = Zeros(<<n_eigenfuncs, n_eigenfuncs>> \o KernelShape)

\* C11: in every step of every driver the average carried for the Jacobian
\* is the average (1 - beta) * previous + beta * batch of the raw covariance
\* Jacobian, shaped (k, k) + the shape of the parameter, and the covariance
\* term of the gradient is the outer derivative of the same step contracted
\* against that average (jax_spin.py divides by the batch size afterwards)
C11_SigmaTermFromAveragedJacobian ==
    (nsteps >= 1)
        => /\ last.j_out.shape = <<n_eigenfuncs, n_eigenfuncs>> \o KernelShape
           /\ last.j_out = js_average(last.j_in, last.j_hat, last.beta)
           /\ last.sigma_term \in
                  {Contract2(last.outer, last.j_out),
                   Scale(RDiv(One, Num(batch_size)), Contract2(last.outer, last.j_out))}

\* C12: in every driver the gradients handed to the optimizer update of a
\* step are the negative of the gradient of the loss trace(Lambda) the step
\* computed, so that the descent update applied ascends the loss
C12_OptimizerGivenNegatedGradient ==
    (nsteps >= 1) => last.gradients = Scale(Num(-1), last.grad_loss)

Frobenius(g, c) == RSum([x \in 1..Size(g) |-> RMul(g.data[x], c.data[x])], Size(g))

UnitAt(shape, n, i) ==
    MkMat(shape[1], shape[2], LAMBDA r, c : IF r = n /\ c = i THEN One ELSE Zero)

covariance_vjp(u1, u2, g) ==
    <<MkMat(u1.shape[1], u1.shape[2],
            LAMBDA n, i : Frobenius(g, covariance(UnitAt(u1.shape, n, i), u2))),
      MkMat(u2.shape[1], u2.shape[2],
            LAMBDA n, j : Frobenius(g, covariance(u1, UnitAt(u2.shape, n, j))))>>

\* C14: what covariance_bwd returns for the saved (u1, u2) and the upstream
\* gradient g of a step, symmetric or not, is the pair of vector-Jacobian
\* products of the forward formula: with respect to u1, then to u2
C14_CovarianceBwdIsVjp ==
    (driver = "stfn" /\ nsteps >= 1)
        => last.bwd_out = covariance_vjp(last.bwd_res[1], last.bwd_res[2], last.bwd_g)

\* C15: in every driver the batch of a step that is not the first of its
\* run is generated from a random key other than the key of the step
\* before it
C15_FreshKeyPerStep ==
    [][LaterStep => last'.key # last.key]_vars

\* the kernel sparsify_weights was given: the fresh kernel in
\* create_train_state, the kernel train_step returned after an epoch
Unsparsified == IF nsteps = 0 THEN InitKernel ELSE last.stepped

=============================================================================
